---- MODULE Spec2Model ----
\* Hospital ETL pipeline: the distributed variant (run_etl.py, a Spark job) and
\* the single-process variant (etl_cloud_run.py, pandas), their transformers,
\* the validator, the loader and both orchestrators.
EXTENDS Integers, Sequences, FiniteSets, TLC

\* ---------------------------------------------------------------- bounds
\* Rows per input file in the orchestrator runs.
MaxRows == 2
\* Rows per table handed to validate_data in the validator harness.
MaxValRows == 3
\* Half-width of the windows of sample numbers around each clamp bound.
Margin == 1

\* ---------------------------------------------------------------- cells
\* A dataframe cell: null/NaN, a number, a string, a boolean or a timestamp
\* (n = day number).  All cells share one record shape.
Null == [k |-> "null", n |-> 0, s |-> ""]
Num(x) == [k |-> "num", n |-> x, s |-> ""]
Str(x) == [k |-> "str", n |-> 0, s |-> x]
Bool(b) == [k |-> "bool", n |-> IF b THEN 1 ELSE 0, s |-> ""]
Ts(d) == [k |-> "ts", n |-> d, s |-> ""]
isNull(c) == c.k = "null"
isNotNull(c) == c.k # "null"

\* Numbers whose decimal text the parsers know: windows around every bound the
\* transformers compare against.
Window(b) == (b - Margin)..(b + Margin)
NumDomain == Window(0) \cup Window(1) \cup Window(5) \cup Window(120) \cup {3, 50, 200}
              \cup Window(100) \cup Window(1000) \cup Window(5000)

\* Text of a number, and the parse of a text as a number (null when the text
\* is not the text of a number).
ParseNum(s) ==
    IF \E x \in NumDomain : ToString(x) = s
    THEN Num(CHOOSE x \in NumDomain : ToString(x) = s)
    ELSE Null

\* The calendar of the sample texts: text -> day number, 365-day years from 1970.
DateTexts == ("1980-06-15" :> 3815)
TimestampTexts == ("2020-01-05 10:00:00" :> 18254) @@ ("2020-01-09 08:30:00" :> 18258)
                   @@ ("2020-01-10 00:00:00" :> 18259) @@ ("2019-12-30 23:00:00" :> 18248)

\* pyspark.sql.functions used by run_etl.py, on cells (null in, null out).
to_date(c) == IF c.k = "str" /\ c.s \in DOMAIN DateTexts THEN Ts(DateTexts[c.s]) ELSE Null
to_timestamp(c) ==
    IF c.k = "str" /\ c.s \in DOMAIN TimestampTexts THEN Ts(TimestampTexts[c.s]) ELSE Null
year(c) == IF isNull(c) THEN Null ELSE Num(1970 + (c.n \div 365))
month(c) == IF isNull(c) THEN Null ELSE Num(1 + ((c.n % 365) \div 31))
dayofweek(c) == IF isNull(c) THEN Null ELSE Num(1 + (c.n % 7))
datediff(a, b) == IF isNull(a) \/ isNull(b) THEN Null ELSE Num(a.n - b.n)
minus(a, b) == IF isNull(a) \/ isNull(b) THEN Null ELSE Num(a.n - b.n)
concat(a, b, c) ==
    IF isNull(a) \/ isNull(b) \/ isNull(c) THEN Null ELSE Str(a.s \o b.s \o c.s)
castDouble(c) == IF c.k = "str" THEN ParseNum(c.s) ELSE IF c.k = "num" THEN c ELSE Null
\* A comparison with null is null, which a when() treats as false.
ge(c, x) == isNotNull(c) /\ c.n >= x
lt(c, x) == isNotNull(c) /\ c.n < x
gt(c, x) == isNotNull(c) /\ c.n > x
notEmpty(c) == isNotNull(c) /\ c.s # ""
\* current_timestamp() / datetime.now(): the wall clock of the run.
current_timestamp == Ts(18300)

\* ---------------------------------------------------------------- frames
\* A dataframe: its columns and its rows (each row a function on the columns).
\* NoDF is the value of a variable no dataframe was bound to.
NoDF == [cols |-> {}, rows |-> << >>, bound |-> FALSE]
DF(cols, rows) == [cols |-> cols, rows |-> rows, bound |-> TRUE]
count(df) == Len(df.rows)
\* The column name set, for each row, to f of the row.
withColumn(df, name, f(_)) ==
    DF(df.cols \cup {name},
       [i \in 1..Len(df.rows) |->
          [c \in df.cols \cup {name} |->
             IF c = name THEN f(df.rows[i]) ELSE df.rows[i][c]]])
select(df, cols) ==
    DF(cols, [i \in 1..Len(df.rows) |-> [c \in cols |-> df.rows[i][c]]])

\* A CSV file: a header and lines of text fields ("" is an empty field).
File(header, lines) == [header |-> header, lines |-> lines]

\* Spark's CSV reader under an explicit schema: an empty field is null, a
\* StringType field is its text, a numeric field is parsed (null if malformed).
SparkField(type, text) ==
    IF text = "" THEN Null
    ELSE IF type = "string" THEN Str(text) ELSE ParseNum(text)
SparkReadCsv(schema, file) ==
    DF(DOMAIN schema,
       [i \in 1..Len(file.lines) |->
          [c \in DOMAIN schema |->
             IF c \in file.header THEN SparkField(schema[c], file.lines[i][c]) ELSE Null]])

patient_schema ==
    [patient_id |-> "string", first_name |-> "string", last_name |-> "string",
     date_of_birth |-> "string", gender |-> "string", admission_date |-> "string",
     discharge_date |-> "string", diagnosis |-> "string", created_at |-> "string"]
treatment_schema ==
    [treatment_id |-> "string", patient_id |-> "string", treatment_type |-> "string",
     treatment_date |-> "string", doctor_name |-> "string", treatment_notes |-> "string",
     cost |-> "string", created_at |-> "string"]
analysis_schema ==
    [patient_id |-> "string", age |-> "integer", gender |-> "string",
     condition |-> "string", procedure |-> "string", cost |-> "double",
     length_of_stay |-> "integer", readmission |-> "string", outcome |-> "string",
     satisfaction |-> "integer"]

read_patient_data(file) == SparkReadCsv(patient_schema, file)
read_treatment_data(file) == SparkReadCsv(treatment_schema, file)
read_hospital_analysis_data(file) == SparkReadCsv(analysis_schema, file)

\* ---------------------------------------------------------------- run_etl.py transformers
transform_patient_data(df) ==
    LET d1 == withColumn(df, "date_of_birth", LAMBDA r : to_date(r["date_of_birth"]))
        d2 == withColumn(d1, "admission_date", LAMBDA r : to_timestamp(r["admission_date"]))
        d3 == withColumn(d2, "discharge_date", LAMBDA r : to_timestamp(r["discharge_date"]))
        d4 == withColumn(d3, "created_at", LAMBDA r : to_timestamp(r["created_at"]))
        d5 == withColumn(d4, "age_at_admission",
                 LAMBDA r : minus(year(r["admission_date"]), year(r["date_of_birth"])))
        d6 == withColumn(d5, "length_of_stay_days",
                 LAMBDA r : datediff(r["discharge_date"], r["admission_date"]))
        d7 == withColumn(d6, "full_name",
                 LAMBDA r : concat(r["first_name"], Str(" "), r["last_name"]))
        d8 == withColumn(d7, "has_valid_dates",
                 LAMBDA r : Bool(isNotNull(r["admission_date"]) /\ isNotNull(r["discharge_date"])))
        d9 == withColumn(d8, "has_valid_diagnosis", LAMBDA r : Bool(notEmpty(r["diagnosis"])))
    IN  withColumn(d9, "processed_at", LAMBDA r : current_timestamp)

\* A categorisation whose thresholds are exclusive (> instead of >=).
cost_category_strict(cost) ==
    IF gt(cost, 5000) THEN Str("High Cost")
    ELSE IF gt(cost, 1000) THEN Str("Medium Cost")
    ELSE IF gt(cost, 100) THEN Str("Low Cost")
    ELSE Str("Minimal Cost")
\* when(cost >= 5000).when(cost >= 1000).when(cost >= 100).otherwise: a
\* comparison with a null cost is not true, so a null cost falls through.
cost_category(cost) ==
    IF ge(cost, 5000) THEN Str("High Cost")
    ELSE IF ge(cost, 1000) THEN Str("Medium Cost")
    ELSE IF ge(cost, 100) THEN Str("Low Cost")
    ELSE Str("Minimal Cost")

transform_treatment_data(df) ==
    LET d1 == withColumn(df, "treatment_date", LAMBDA r : to_timestamp(r["treatment_date"]))
        d2 == withColumn(d1, "created_at", LAMBDA r : to_timestamp(r["created_at"]))
        d3 == withColumn(d2, "cost", LAMBDA r : castDouble(r["cost"]))
        d4 == withColumn(d3, "treatment_year", LAMBDA r : year(r["treatment_date"]))
        d5 == withColumn(d4, "treatment_month", LAMBDA r : month(r["treatment_date"]))
        d6 == withColumn(d5, "treatment_day_of_week", LAMBDA r : dayofweek(r["treatment_date"]))
        d7 == withColumn(d6, "cost_category", LAMBDA r : cost_category(r["cost"]))
        d8 == withColumn(d7, "has_valid_cost", LAMBDA r : Bool(ge(r["cost"], 0)))
        d9 == withColumn(d8, "has_valid_doctor", LAMBDA r : Bool(notEmpty(r["doctor_name"])))
        d10 == withColumn(d9, "has_valid_treatment_type",
                  LAMBDA r : Bool(notEmpty(r["treatment_type"])))
    IN  withColumn(d10, "processed_at", LAMBDA r : current_timestamp)

\* A fill that leaves the column as it is.
fillNull_keep(c, dflt) == c
\* when(col.isNull(), dflt).otherwise(col) / Series.fillna(dflt)
fillNull(c, dflt) == IF isNull(c) THEN dflt ELSE c
\* when(isNull, dflt).when(col < lo, lo).when(col > hi, hi).otherwise(col)
clampBoth(c, dflt, lo, hi) ==
    IF isNull(c) THEN Num(dflt)
    ELSE IF lt(c, lo) THEN Num(lo)
    ELSE IF gt(c, hi) THEN Num(hi)
    ELSE c
\* when(isNull, 0).when(col < 0, 0).otherwise(col)
clampLow(c) == IF isNull(c) THEN Num(0) ELSE IF lt(c, 0) THEN Num(0) ELSE c

transform_hospital_analysis_data(df) ==
    LET d0 == withColumn(df, "created_at", LAMBDA r : current_timestamp)
        d1 == withColumn(d0, "gender", LAMBDA r : fillNull(r["gender"], Str("Unknown")))
        d2 == withColumn(d1, "condition", LAMBDA r : fillNull(r["condition"], Str("Unknown")))
        d3 == withColumn(d2, "procedure", LAMBDA r : fillNull(r["procedure"], Str("Unknown")))
        d4 == withColumn(d3, "outcome", LAMBDA r : fillNull(r["outcome"], Str("Unknown")))
        d5 == withColumn(d4, "readmission", LAMBDA r : fillNull(r["readmission"], Str("No")))
        d6 == withColumn(d5, "satisfaction", LAMBDA r : clampBoth(r["satisfaction"], 3, 1, 5))
        d7 == withColumn(d6, "age", LAMBDA r : clampBoth(r["age"], 0, 0, 120))
        d8 == withColumn(d7, "cost", LAMBDA r : clampLow(r["cost"]))
    IN  withColumn(d8, "length_of_stay", LAMBDA r : clampLow(r["length_of_stay"]))

\* ---------------------------------------------------------------- etl_cloud_run.py processors
\* pandas.read_csv: fields in the default NA list are NaN, numeric text is a
\* number, any other text a string; a file with no header line cannot be parsed.
PandasNaValues == {"", "NA", "NaN", "null", "N/A"}
PandasField(text) ==
    IF text \in PandasNaValues THEN Null
    ELSE IF isNotNull(ParseNum(text)) THEN ParseNum(text) ELSE Str(text)
pd_read_csv(file) ==
    DF(file.header,
       [i \in 1..Len(file.lines) |-> [c \in file.header |-> PandasField(file.lines[i][c])]])
\* pd.to_numeric(col, errors="coerce").fillna(dflt)
to_numeric_fillna(c, dflt) ==
    LET v == IF c.k = "num" THEN c ELSE IF c.k = "str" THEN ParseNum(c.s) ELSE Null
    IN  IF isNull(v) THEN Num(dflt) ELSE v

\* The outcome of a processor: the dataframe, or the exception it raised
\* (EmptyDataError from read_csv, KeyError from indexing a missing column).
Raised == [ok |-> FALSE, df |-> NoDF]
Returned(df) == [ok |-> TRUE, df |-> df]
\* read_csv parses the file and every column the processor indexes exists.
Readable(file, needs) == file.header # {} /\ needs \subseteq file.header

process_patient_data(file) ==
    IF ~Readable(file, {"age", "gender", "condition"}) THEN Raised
    ELSE
        LET df == pd_read_csv(file)
            d0 == withColumn(df, "created_at", LAMBDA r : current_timestamp)
            d1 == withColumn(d0, "age", LAMBDA r : to_numeric_fillna(r["age"], 0))
            d2 == withColumn(d1, "gender", LAMBDA r : fillNull(r["gender"], Str("Unknown")))
        IN  Returned(withColumn(d2, "condition",
                LAMBDA r : fillNull(r["condition"], Str("Unknown"))))

process_treatment_data(file) ==
    IF ~Readable(file, {"cost", "duration_days", "treatment_type"}) THEN Raised
    ELSE
        LET df == pd_read_csv(file)
            d0 == withColumn(df, "created_at", LAMBDA r : current_timestamp)
            d1 == withColumn(d0, "cost", LAMBDA r : to_numeric_fillna(r["cost"], 0))
            d2 == withColumn(d1, "duration_days",
                     LAMBDA r : to_numeric_fillna(r["duration_days"], 0))
        IN  Returned(withColumn(d2, "treatment_type",
                LAMBDA r : fillNull(r["treatment_type"], Str("Unknown"))))

process_hospital_analysis_data(file) ==
    IF ~Readable(file, {"age", "cost", "length_of_stay", "satisfaction", "gender",
                        "condition", "procedure", "outcome", "readmission"}) THEN Raised
    ELSE
        LET df == pd_read_csv(file)
            d0 == withColumn(df, "created_at", LAMBDA r : current_timestamp)
            d1 == withColumn(d0, "age", LAMBDA r : to_numeric_fillna(r["age"], 0))
            d2 == withColumn(d1, "cost", LAMBDA r : to_numeric_fillna(r["cost"], 0))
            d3 == withColumn(d2, "length_of_stay",
                     LAMBDA r : to_numeric_fillna(r["length_of_stay"], 0))
            d4 == withColumn(d3, "satisfaction",
                     LAMBDA r : to_numeric_fillna(r["satisfaction"], 3))
            d5 == withColumn(d4, "gender", LAMBDA r : fillNull(r["gender"], Str("Unknown")))
            d6 == withColumn(d5, "condition",
                     LAMBDA r : fillNull(r["condition"], Str("Unknown")))
            d7 == withColumn(d6, "procedure",
                     LAMBDA r : fillNull(r["procedure"], Str("Unknown")))
            d8 == withColumn(d7, "outcome", LAMBDA r : fillNull(r["outcome"], Str("Unknown")))
        IN  Returned(withColumn(d8, "readmission",
                LAMBDA r : fillNull(r["readmission"], Str("No"))))

\* ---------------------------------------------------------------- validator
\* df.filter(col(c).isNull()).count()
null_count(df, c) == Cardinality({i \in 1..Len(df.rows) : isNull(df.rows[i][c])})
\* df.filter(col(a).isNull() | col(b).isNull()).count()
null_count2(df, a, b) ==
    Cardinality({i \in 1..Len(df.rows) : isNull(df.rows[i][a]) \/ isNull(df.rows[i][b])})
\* df.groupBy(c).count().filter(col("count") > 1).count(): null is a group key
\* like any other value.
duplicate_count(df, c) ==
    LET keys == {df.rows[i][c] : i \in 1..Len(df.rows)}
        size(key) == Cardinality({i \in 1..Len(df.rows) : df.rows[i][c] = key})
    IN  Cardinality({key \in keys : size(key) > 1})

\* The counts validate_data computes and logs for a data_type: the null count
\* and the duplicate count of the key, and the other null counts.
validate_counts(df, data_type) ==
    IF data_type = "patient" THEN
        LET null_patient_ids == null_count(df, "patient_id")
            null_names == null_count2(df, "first_name", "last_name")
            null_dates == null_count2(df, "admission_date", "discharge_date")
            duplicate_patient_ids == duplicate_count(df, "patient_id")
        IN  [null_keys |-> null_patient_ids, duplicates |-> duplicate_patient_ids,
             others |-> <<null_names, null_dates>>]
    ELSE IF data_type = "treatment" THEN
        LET null_treatment_ids == null_count(df, "treatment_id")
            null_patient_ids == null_count(df, "patient_id")
            null_treatment_types == null_count(df, "treatment_type")
            null_costs == null_count(df, "cost")
            duplicate_treatment_ids == duplicate_count(df, "treatment_id")
        IN  [null_keys |-> null_treatment_ids, duplicates |-> duplicate_treatment_ids,
             others |-> <<null_patient_ids, null_treatment_types, null_costs>>]
    ELSE IF data_type = "hospital_analysis" THEN
        LET null_patient_ids == null_count(df, "patient_id")
            null_ages == null_count(df, "age")
            null_genders == null_count(df, "gender")
            null_conditions == null_count(df, "condition")
            duplicate_patient_ids == duplicate_count(df, "patient_id")
        IN  [null_keys |-> null_patient_ids, duplicates |-> duplicate_patient_ids,
             others |-> <<null_ages, null_genders, null_conditions>>]
    ELSE [null_keys |-> 0, duplicates |-> 0, others |-> << >>]

\* A validator that also fails on the null counts it only reports.
validate_report_strict(df, data_type) ==
    LET c == validate_counts(df, data_type)
    IN  [result |-> ~(c.null_keys > 0 \/ c.duplicates > 0
                      \/ \E i \in 1..Len(c.others) : c.others[i] > 0),
         null_keys |-> c.null_keys, duplicates |-> c.duplicates, others |-> c.others]

\* validate_data with what it logs: False when the key has a null or a
\* duplicate, True otherwise.
validate_report(df, data_type) ==
    LET c == validate_counts(df, data_type)
    IN  [result |-> ~(c.null_keys > 0 \/ c.duplicates > 0),
         null_keys |-> c.null_keys, duplicates |-> c.duplicates, others |-> c.others]

validate_data(df, data_type) == validate_report(df, data_type).result

\* ---------------------------------------------------------------- loader
\* A warehouse table: absent, or present with columns and rows.
AbsentTable == [exists |-> FALSE, cols |-> {}, rows |-> << >>]
\* A load job that appends (WRITE_APPEND) instead of replacing.
bigquery_load_append(dest, df) ==
    [exists |-> TRUE, cols |-> df.cols, rows |-> dest.rows \o df.rows]
\* The load job both variants submit: CREATE_IF_NEEDED + WRITE_TRUNCATE.
bigquery_load(dest, df) == [exists |-> TRUE, cols |-> df.cols, rows |-> df.rows]

\* A selection that keeps every column of the transformed table.
df_to_write_all(df, table_id) == df
\* The columns write_to_bigquery selects per table_id.
df_to_write(df, table_id) ==
    IF table_id = "patients" THEN
        select(df, {"patient_id", "first_name", "last_name", "date_of_birth", "gender",
                    "admission_date", "discharge_date", "diagnosis", "created_at"})
    ELSE IF table_id = "treatments" THEN
        select(df, {"treatment_id", "patient_id", "treatment_type", "treatment_date",
                    "doctor_name", "treatment_notes", "cost", "created_at"})
    ELSE IF table_id = "hospital_analysis" THEN
        select(df, {"patient_id", "age", "gender", "condition", "procedure", "cost",
                    "length_of_stay", "readmission", "outcome", "satisfaction", "created_at"})
    ELSE df
write_to_bigquery(dest, df, table_id) == bigquery_load(dest, df_to_write(df, table_id))
upload_to_bigquery(dest, df, table_id) == bigquery_load(dest, df)

\* ---------------------------------------------------------------- state
VARIABLES
    variant,         \* "spark" (run_etl.main) or "cloudrun" (etl_cloud_run.main)
    pc,              \* position of main
    cur,             \* index of the entity being processed, 1..3
    session,         \* the Spark session: "none", "active" or "stopped"
    spark_bound,     \* 'spark' in locals() of run_etl.main
    local_files,     \* etl_cloud_run: the /tmp CSV of each entity, << >> or <<file>>
    extracted,       \* run_etl: patient_df, treatment_df, analysis_df
    transformed,     \* the transformed dataframe of each entity
    validated,       \* run_etl: what validate_data returned per entity
    bq,              \* the warehouse tables
    prior,           \* the warehouse tables as they were when the run started
    written,         \* the entities whose load returned in this run, in order
    failed,          \* << >>, or <<entity index, stage>> of the stage that raised
    pending,         \* << >>, or <<status>> of the SystemExit being propagated
    exit_status,     \* << >> while running, <<status>> once the process ended
    success_logged,  \* "ETL pipeline completed successfully!" was logged
    failure_logged,  \* "ETL pipeline failed" was logged
    summary,         \* << >>, or the three row counts of the logged summary
    fn, arg, ret     \* the function-level harness: function, input, result

vars == <<variant, pc, cur, session, spark_bound, local_files, extracted, transformed,
          validated, bq, prior, written, failed, pending, exit_status, success_logged,
          failure_logged, summary, fn, arg, ret>>
mainVars == <<variant, pc, cur, session, spark_bound, local_files, extracted, transformed,
              validated, bq, prior, written, failed, pending, exit_status, success_logged,
              failure_logged, summary>>
harnessVars == <<fn, arg, ret>>

table_ids == <<"patients", "treatments", "hospital_analysis">>
data_types == <<"patient", "treatment", "hospital_analysis">>
Entities == 1..Len(table_ids)

SeqsUpTo(S, n) == UNION {[1..k -> S] : k \in 0..n}

\* ---------------------------------------------------------------- sample inputs
\* The raw files of a run: per entity a clean line and a dirty one (empty key,
\* empty or malformed fields), in files of up to MaxRows lines.
PatientLines ==
    {[patient_id |-> "P1", first_name |-> "Ann", last_name |-> "Lee",
      date_of_birth |-> "1980-06-15", gender |-> "F",
      admission_date |-> "2020-01-05 10:00:00", discharge_date |-> "2020-01-09 08:30:00",
      diagnosis |-> "Flu", created_at |-> "2020-01-10 00:00:00"],
     [patient_id |-> "", first_name |-> "", last_name |-> "Roe",
      date_of_birth |-> "06/15/1980", gender |-> "",
      admission_date |-> "2020-01-05 10:00:00", discharge_date |-> "",
      diagnosis |-> "", created_at |-> ""]}
TreatmentLines ==
    {[treatment_id |-> "T1", patient_id |-> "P1", treatment_type |-> "Surgery",
      treatment_date |-> "2020-01-05 10:00:00", doctor_name |-> "Dr. Poe",
      treatment_notes |-> "", cost |-> "5000", created_at |-> "2020-01-10 00:00:00"],
     [treatment_id |-> "", patient_id |-> "", treatment_type |-> "",
      treatment_date |-> "yesterday", doctor_name |-> "",
      treatment_notes |-> "", cost |-> "-1", created_at |-> ""]}
AnalysisLines ==
    {[patient_id |-> "P1", age |-> "50", gender |-> "F", condition |-> "Flu",
      procedure |-> "X-ray", cost |-> "1000", length_of_stay |-> "3",
      readmission |-> "No", outcome |-> "Recovered", satisfaction |-> "4"],
     [patient_id |-> "", age |-> "200", gender |-> "", condition |-> "",
      procedure |-> "", cost |-> "-1", length_of_stay |-> "",
      readmission |-> "", outcome |-> "", satisfaction |-> "6"]}
\* The files etl_cloud_run's processors index: patients with age, gender and
\* condition, treatments with cost, duration_days and treatment_type.
CloudPatientLines ==
    {[patient_id |-> "P1", age |-> "50", gender |-> "F", condition |-> "Flu"],
     [patient_id |-> "", age |-> "unknown", gender |-> "NA", condition |-> ""]}
CloudTreatmentLines ==
    {[treatment_id |-> "T1", patient_id |-> "P1", treatment_type |-> "Surgery",
      cost |-> "5000", duration_days |-> "3"],
     [treatment_id |-> "", patient_id |-> "", treatment_type |-> "",
      cost |-> "-1", duration_days |-> "soon"]}

FilesOf(lines, n) ==
    {File(DOMAIN (CHOOSE l \in lines : TRUE), ls) : ls \in SeqsUpTo(lines, n)}
\* A file with no header line at all, and a one-line file in another layout.
EmptyFile == File({}, << >>)
OtherLayout(lines) ==
    File(DOMAIN (CHOOSE l \in lines : TRUE), <<CHOOSE l \in lines : l.patient_id # "">>)

SparkFiles(e) ==
    IF e = 1 THEN FilesOf(PatientLines, MaxRows)
    ELSE IF e = 2 THEN FilesOf(TreatmentLines, MaxRows)
    ELSE FilesOf(AnalysisLines, MaxRows)
CloudFiles(e) ==
    IF e = 1 THEN FilesOf(CloudPatientLines, MaxRows) \cup {EmptyFile, OtherLayout(PatientLines)}
    ELSE IF e = 2 THEN
        FilesOf(CloudTreatmentLines, MaxRows) \cup {EmptyFile, OtherLayout(TreatmentLines)}
    ELSE FilesOf(AnalysisLines, MaxRows) \cup {EmptyFile, OtherLayout(CloudPatientLines)}

\* What a warehouse table may hold before a run: nothing (absent), no rows, or
\* the rows an earlier load left.
LegacyRow == [patient_id |-> Str("P0")]
PriorTables ==
    {AbsentTable,
     [exists |-> TRUE, cols |-> {"patient_id"}, rows |-> << >>],
     [exists |-> TRUE, cols |-> {"patient_id"}, rows |-> [i \in 1..(MaxRows + 1) |-> LegacyRow]]}

\* The warehouses a run starts on: the three tables alike, or one of each kind.
PriorWarehouses ==
    {[e \in Entities |-> p] : p \in PriorTables}
    \cup {w \in [Entities -> PriorTables] : \A d, e \in Entities : d # e => w[d] # w[e]}

read_data(e, file) ==
    IF e = 1 THEN read_patient_data(file)
    ELSE IF e = 2 THEN read_treatment_data(file)
    ELSE read_hospital_analysis_data(file)
transform_data(e, df) ==
    IF e = 1 THEN transform_patient_data(df)
    ELSE IF e = 2 THEN transform_treatment_data(df)
    ELSE transform_hospital_analysis_data(df)
process_data(e, file) ==
    IF e = 1 THEN process_patient_data(file)
    ELSE IF e = 2 THEN process_treatment_data(file)
    ELSE process_hospital_analysis_data(file)

\* ---------------------------------------------------------------- Init
NoHarness == fn = "main" /\ arg = << >> /\ ret = << >>

Init ==
    /\ variant \in {"spark", "cloudrun"}
    /\ pc = IF variant = "spark" THEN "create_session" ELSE "download"
    /\ cur = 1
    /\ session = "none"
    /\ spark_bound = FALSE
    /\ local_files = [e \in Entities |-> << >>]
    /\ extracted = [e \in Entities |-> NoDF]
    /\ transformed = [e \in Entities |-> NoDF]
    /\ validated = [e \in Entities |-> "none"]
    /\ bq \in PriorWarehouses
    /\ prior = bq
    /\ written = << >>
    /\ failed = << >>
    /\ pending = << >>
    /\ exit_status = << >>
    /\ success_logged = FALSE
    /\ failure_logged = FALSE
    /\ summary = << >>
    /\ NoHarness

\* ---------------------------------------------------------------- run_etl.main
\* A stage raised: control goes to the except clause.
Raise(stage) ==
    /\ failed' = <<cur, stage>>
    /\ pc' = "except"

\* spark = create_spark_session(): the session exists and is bound, or
\* getOrCreate raised and there is none.
RunEtl_CreateSession ==
    /\ variant = "spark" /\ pc = "create_session"
    /\ \/ /\ session' = "active"
          /\ spark_bound' = TRUE
          /\ pc' = "read"
          /\ UNCHANGED failed
       \/ /\ Raise("session")
          /\ UNCHANGED <<session, spark_bound>>
    /\ UNCHANGED <<variant, cur, local_files, extracted, transformed, validated, bq, prior,
                   written, pending, exit_status, success_logged, failure_logged, summary>>
    /\ UNCHANGED harnessVars

\* read_*_data: the CSV under the schema; the count it logs runs a job, which
\* may raise (the error is logged and re-raised).
RunEtl_Read ==
    /\ variant = "spark" /\ pc = "read"
    /\ \/ /\ \E file \in SparkFiles(cur) :
                extracted' = [extracted EXCEPT ![cur] = read_data(cur, file)]
          /\ pc' = "transform"
          /\ UNCHANGED failed
       \/ /\ Raise("extract")
          /\ UNCHANGED extracted
    /\ UNCHANGED <<variant, cur, session, spark_bound, local_files, transformed, validated,
                   bq, prior, written, pending, exit_status, success_logged, failure_logged,
                   summary>>
    /\ UNCHANGED harnessVars

\* transform_*_data: builds the lazy plan; nothing is evaluated, nothing raises.
RunEtl_Transform ==
    /\ variant = "spark" /\ pc = "transform"
    /\ transformed' = [transformed EXCEPT ![cur] = transform_data(cur, extracted[cur])]
    /\ pc' = "validate"
    /\ UNCHANGED <<variant, cur, session, spark_bound, local_files, extracted, validated,
                   bq, prior, written, failed, pending, exit_status, success_logged,
                   failure_logged, summary>>
    /\ UNCHANGED harnessVars

\* A main that records the validator's answer and loads regardless.
RunEtl_Validate_NoGate ==
    /\ variant = "spark" /\ pc = "validate"
    /\ \/ /\ validated' = [validated EXCEPT ![cur] =
                IF validate_data(transformed[cur], data_types[cur]) THEN "pass" ELSE "fail"]
          /\ pc' = "write"
          /\ UNCHANGED <<failed, pending>>
       \/ /\ Raise("validate")
          /\ UNCHANGED <<validated, pending>>
    /\ UNCHANGED <<variant, cur, session, spark_bound, local_files, extracted, transformed,
                   bq, prior, written, exit_status, success_logged, failure_logged, summary>>
    /\ UNCHANGED harnessVars

\* if not validate_data(...): logger.error(...); sys.exit(1).  The counts run
\* jobs, which may raise.  SystemExit is not an Exception: it passes the except
\* clause and reaches the finally clause.
RunEtl_Validate ==
    /\ variant = "spark" /\ pc = "validate"
    /\ \/ /\ validate_data(transformed[cur], data_types[cur])
          /\ validated' = [validated EXCEPT ![cur] = "pass"]
          /\ pc' = "write"
          /\ UNCHANGED <<failed, pending>>
       \/ /\ ~validate_data(transformed[cur], data_types[cur])
          /\ validated' = [validated EXCEPT ![cur] = "fail"]
          /\ pending' = <<1>>
          /\ pc' = "finally"
          /\ UNCHANGED failed
       \/ /\ Raise("validate")
          /\ UNCHANGED <<validated, pending>>
    /\ UNCHANGED <<variant, cur, session, spark_bound, local_files, extracted, transformed,
                   bq, prior, written, exit_status, success_logged, failure_logged, summary>>
    /\ UNCHANGED harnessVars

\* write_to_bigquery: the load job replaces the table, or raises and leaves it
\* (the error is logged and re-raised).  After the third load main goes on to
\* the summary.
RunEtl_Write ==
    /\ variant = "spark" /\ pc = "write"
    /\ \/ /\ bq' = [bq EXCEPT ![cur] = write_to_bigquery(bq[cur], transformed[cur], table_ids[cur])]
          /\ written' = Append(written, cur)
          /\ IF cur < Len(table_ids)
             THEN cur' = cur + 1 /\ pc' = "read"
             ELSE cur' = cur /\ pc' = "summary"
          /\ UNCHANGED failed
       \/ /\ Raise("load")
          /\ UNCHANGED <<bq, written, cur>>
    /\ UNCHANGED <<variant, session, spark_bound, local_files, extracted, transformed,
                   validated, prior, pending, exit_status, success_logged, failure_logged,
                   summary>>
    /\ UNCHANGED harnessVars

\* The success message, then the three counts (jobs, which may raise) and the
\* summary lines.
RunEtl_Summary ==
    /\ variant = "spark" /\ pc = "summary"
    /\ success_logged' = TRUE
    /\ \/ /\ summary' = <<[e \in Entities |-> count(transformed[e])]>>
          /\ pc' = "finally"
          /\ UNCHANGED failed
       \/ /\ Raise("summary")
          /\ UNCHANGED summary
    /\ UNCHANGED <<variant, cur, session, spark_bound, local_files, extracted, transformed,
                   validated, bq, prior, written, pending, exit_status, failure_logged>>
    /\ UNCHANGED harnessVars

\* An except clause that logs the failure and lets main return.
RunEtl_Except_ExitZero ==
    /\ variant = "spark" /\ pc = "except"
    /\ failure_logged' = TRUE
    /\ pc' = "finally"
    /\ UNCHANGED <<variant, cur, session, spark_bound, local_files, extracted, transformed,
                   validated, bq, prior, written, failed, pending, exit_status,
                   success_logged, summary>>
    /\ UNCHANGED harnessVars

\* except Exception: logger.error(...); sys.exit(1)
RunEtl_Except ==
    /\ variant = "spark" /\ pc = "except"
    /\ failure_logged' = TRUE
    /\ pending' = <<1>>
    /\ pc' = "finally"
    /\ UNCHANGED <<variant, cur, session, spark_bound, local_files, extracted, transformed,
                   validated, bq, prior, written, failed, exit_status, success_logged,
                   summary>>
    /\ UNCHANGED harnessVars

\* A main that stops the session at the end of the try block, not in finally.
RunEtl_Finally_StopOnSuccess ==
    /\ variant = "spark" /\ pc = "finally"
    /\ session' = IF spark_bound /\ pending = << >> THEN "stopped" ELSE session
    /\ exit_status' = IF pending = << >> THEN <<0>> ELSE pending
    /\ pc' = "exited"
    /\ UNCHANGED <<variant, cur, spark_bound, local_files, extracted, transformed, validated,
                   bq, prior, written, failed, pending, success_logged, failure_logged,
                   summary>>
    /\ UNCHANGED harnessVars

\* finally: if 'spark' in locals(): spark.stop().  Then the pending SystemExit
\* ends the process, or main returns and the process ends with status 0.
RunEtl_Finally ==
    /\ variant = "spark" /\ pc = "finally"
    /\ session' = IF spark_bound THEN "stopped" ELSE session
    /\ exit_status' = IF pending = << >> THEN <<0>> ELSE pending
    /\ pc' = "exited"
    /\ UNCHANGED <<variant, cur, spark_bound, local_files, extracted, transformed, validated,
                   bq, prior, written, failed, pending, success_logged, failure_logged,
                   summary>>
    /\ UNCHANGED harnessVars

\* ---------------------------------------------------------------- etl_cloud_run.main
\* download_csv_from_gcs: the blob lands in /tmp, or the download raises.
CloudRun_Download ==
    /\ variant = "cloudrun" /\ pc = "download"
    /\ \/ /\ \E file \in CloudFiles(cur) :
                local_files' = [local_files EXCEPT ![cur] = <<file>>]
          /\ pc' = "process"
          /\ UNCHANGED failed
       \/ /\ Raise("extract")
          /\ UNCHANGED local_files
    /\ UNCHANGED <<variant, cur, session, spark_bound, extracted, transformed, validated,
                   bq, prior, written, pending, exit_status, success_logged, failure_logged,
                   summary>>
    /\ UNCHANGED harnessVars

\* A main that calls validate_data's key check after the processor and exits
\* before the load when it fails.
CloudRun_Process_Gated ==
    /\ variant = "cloudrun" /\ pc = "process"
    /\ LET out == process_data(cur, local_files[cur][1])
           key == IF data_types[cur] = "treatment" THEN "treatment_id" ELSE "patient_id"
           gate == null_count(out.df, key) = 0 /\ duplicate_count(out.df, key) = 0
       IN  \/ /\ out.ok /\ gate
              /\ transformed' = [transformed EXCEPT ![cur] = out.df]
              /\ pc' = "upload"
              /\ UNCHANGED failed
           \/ /\ out.ok /\ ~gate
              /\ transformed' = [transformed EXCEPT ![cur] = out.df]
              /\ Raise("validate")
           \/ /\ ~out.ok
              /\ Raise("transform")
              /\ UNCHANGED transformed
    /\ UNCHANGED <<variant, cur, session, spark_bound, local_files, extracted, validated,
                   bq, prior, written, pending, exit_status, success_logged, failure_logged,
                   summary>>
    /\ UNCHANGED harnessVars

\* process_*_data: read_csv and the column fixes, or the exception they raise.
CloudRun_Process ==
    /\ variant = "cloudrun" /\ pc = "process"
    /\ LET out == process_data(cur, local_files[cur][1])
       IN  \/ /\ out.ok
              /\ transformed' = [transformed EXCEPT ![cur] = out.df]
              /\ pc' = "upload"
              /\ UNCHANGED failed
           \/ /\ ~out.ok
              /\ Raise("transform")
              /\ UNCHANGED transformed
    /\ UNCHANGED <<variant, cur, session, spark_bound, local_files, extracted, validated,
                   bq, prior, written, pending, exit_status, success_logged, failure_logged,
                   summary>>
    /\ UNCHANGED harnessVars

\* An upload whose failing load job has already emptied the table.
CloudRun_Upload_Truncating ==
    /\ variant = "cloudrun" /\ pc = "upload"
    /\ \/ /\ bq' = [bq EXCEPT ![cur] = upload_to_bigquery(bq[cur], transformed[cur], table_ids[cur])]
          /\ written' = Append(written, cur)
          /\ IF cur < Len(table_ids)
             THEN cur' = cur + 1 /\ pc' = "download"
             ELSE cur' = cur /\ pc' = "summary"
          /\ UNCHANGED failed
       \/ /\ Raise("load")
          /\ bq' = [bq EXCEPT ![cur] = [exists |-> TRUE, cols |-> {}, rows |-> << >>]]
          /\ UNCHANGED <<written, cur>>
    /\ UNCHANGED <<variant, session, spark_bound, local_files, extracted, transformed,
                   validated, prior, pending, exit_status, success_logged, failure_logged,
                   summary>>
    /\ UNCHANGED harnessVars

\* upload_to_bigquery: the load job replaces the table (job.result() waits for
\* it), or raises and leaves it.
CloudRun_Upload ==
    /\ variant = "cloudrun" /\ pc = "upload"
    /\ \/ /\ bq' = [bq EXCEPT ![cur] = upload_to_bigquery(bq[cur], transformed[cur], table_ids[cur])]
          /\ written' = Append(written, cur)
          /\ IF cur < Len(table_ids)
             THEN cur' = cur + 1 /\ pc' = "download"
             ELSE cur' = cur /\ pc' = "summary"
          /\ UNCHANGED failed
       \/ /\ Raise("load")
          /\ UNCHANGED <<bq, written, cur>>
    /\ UNCHANGED <<variant, session, spark_bound, local_files, extracted, transformed,
                   validated, prior, pending, exit_status, success_logged, failure_logged,
                   summary>>
    /\ UNCHANGED harnessVars

\* The success message and the summary (len() of frames in memory); main
\* returns and the process ends with status 0.
CloudRun_Summary ==
    /\ variant = "cloudrun" /\ pc = "summary"
    /\ success_logged' = TRUE
    /\ summary' = <<[e \in Entities |-> count(transformed[e])]>>
    /\ exit_status' = <<0>>
    /\ pc' = "exited"
    /\ UNCHANGED <<variant, cur, session, spark_bound, local_files, extracted, transformed,
                   validated, bq, prior, written, failed, pending, failure_logged>>
    /\ UNCHANGED harnessVars

\* An except clause that logs the failure and lets main return.
CloudRun_Except_Swallow ==
    /\ variant = "cloudrun" /\ pc = "except"
    /\ failure_logged' = TRUE
    /\ exit_status' = <<0>>
    /\ pc' = "exited"
    /\ UNCHANGED <<variant, cur, session, spark_bound, local_files, extracted, transformed,
                   validated, bq, prior, written, failed, pending, success_logged, summary>>
    /\ UNCHANGED harnessVars

\* except Exception: logger.error(...); sys.exit(1)
CloudRun_Except ==
    /\ variant = "cloudrun" /\ pc = "except"
    /\ failure_logged' = TRUE
    /\ pending' = <<1>>
    /\ exit_status' = <<1>>
    /\ pc' = "exited"
    /\ UNCHANGED <<variant, cur, session, spark_bound, local_files, extracted, transformed,
                   validated, bq, prior, written, failed, success_logged, summary>>
    /\ UNCHANGED harnessVars

Next ==
    \/ RunEtl_CreateSession
    \/ RunEtl_Read
    \/ RunEtl_Transform
    \/ RunEtl_Validate
    \/ RunEtl_Write
    \/ RunEtl_Summary
    \/ RunEtl_Except
    \/ RunEtl_Finally
    \/ CloudRun_Download
    \/ CloudRun_Process
    \/ CloudRun_Upload
    \/ CloudRun_Summary
    \/ CloudRun_Except

Spec == Init /\ [][Next]_vars

\* ---------------------------------------------------------------- transformer harness
\* Each transformer applied to one-line files whose fields range over empty,
\* malformed and numeric texts around every bound, and to the files of a run.
NumTexts(S) == {ToString(x) : x \in S} \cup {"", "abc"}
AgeTexts == NumTexts(Window(0) \cup Window(120) \cup {50, 200})
SatisfactionTexts == NumTexts(Window(1) \cup Window(5) \cup {3})
AnalysisCostTexts == NumTexts(Window(0) \cup {1000})
StayTexts == NumTexts(Window(0) \cup {3})
TreatmentCostTexts ==
    NumTexts(Window(0) \cup Window(100) \cup Window(1000) \cup Window(5000) \cup {50})

WideAnalysisLines ==
    {[patient_id |-> id, age |-> a, gender |-> g, condition |-> g, procedure |-> g,
      cost |-> c, length_of_stay |-> l, readmission |-> g, outcome |-> g,
      satisfaction |-> s] :
        id \in {"", "P1"}, a \in AgeTexts, g \in {"", "F"}, c \in AnalysisCostTexts,
        l \in StayTexts, s \in SatisfactionTexts}
    \cup
    {[patient_id |-> "P1", age |-> "50", gender |-> g, condition |-> c, procedure |-> p,
      cost |-> "1000", length_of_stay |-> "3", readmission |-> r, outcome |-> o,
      satisfaction |-> "4"] :
        g \in {"", "NA", "F"}, c \in {"", "Flu"}, p \in {"", "X-ray"},
        r \in {"", "Yes"}, o \in {"", "Recovered"}}
WideTreatmentLines ==
    {[treatment_id |-> id, patient_id |-> p, treatment_type |-> t, treatment_date |-> d,
      doctor_name |-> n, treatment_notes |-> "", cost |-> c,
      created_at |-> "2020-01-10 00:00:00"] :
        id \in {"", "T1"}, p \in {"", "P1"}, t \in {"", "Surgery"},
        d \in {"", "yesterday", "2020-01-05 10:00:00"}, n \in {"", "Dr. Poe"},
        c \in TreatmentCostTexts}
WidePatientLines ==
    {[patient_id |-> id, first_name |-> f, last_name |-> l, date_of_birth |-> b,
      gender |-> "F", admission_date |-> a, discharge_date |-> d, diagnosis |-> g,
      created_at |-> c] :
        id \in {"", "P1"}, f \in {"", "Ann"}, l \in {"", "Lee"},
        b \in {"", "06/15/1980", "1980-06-15"},
        a \in {"", "yesterday", "2020-01-05 10:00:00"},
        d \in {"", "2020-01-09 08:30:00", "2019-12-30 23:00:00"},
        g \in {"", "Flu"}, c \in {"", "2020-01-10 00:00:00"}}
WideCloudPatientLines ==
    {[patient_id |-> id, age |-> a, gender |-> g, condition |-> c] :
        id \in {"", "P1"}, a \in AgeTexts, g \in {"", "NA", "F"}, c \in {"", "Flu"}}
WideCloudTreatmentLines ==
    {[treatment_id |-> id, patient_id |-> p, treatment_type |-> t, cost |-> c,
      duration_days |-> d] :
        id \in {"", "T1"}, p \in {"", "P1"}, t \in {"", "NA", "Surgery"},
        c \in TreatmentCostTexts, d \in StayTexts}

OneLineFiles(lines) == {File(DOMAIN l, <<l>>) : l \in lines}

TransformFns ==
    {"transform_patient_data", "transform_treatment_data", "transform_hospital_analysis_data",
     "process_patient_data", "process_treatment_data", "process_hospital_analysis_data"}
TransformInputs(f) ==
    IF f = "transform_patient_data" THEN OneLineFiles(WidePatientLines) \cup SparkFiles(1)
    ELSE IF f = "transform_treatment_data" THEN OneLineFiles(WideTreatmentLines) \cup SparkFiles(2)
    ELSE IF f = "transform_hospital_analysis_data" THEN
        OneLineFiles(WideAnalysisLines) \cup SparkFiles(3)
    ELSE IF f = "process_patient_data" THEN OneLineFiles(WideCloudPatientLines) \cup CloudFiles(1)
    ELSE IF f = "process_treatment_data" THEN
        OneLineFiles(WideCloudTreatmentLines) \cup CloudFiles(2)
    ELSE OneLineFiles(WideAnalysisLines) \cup CloudFiles(3)

\* The orchestrator's variables while a harness runs: no run is in progress.
MainIdle ==
    /\ variant = "spark"
    /\ pc = "harness"
    /\ cur = 1
    /\ session = "none"
    /\ spark_bound = FALSE
    /\ local_files = [e \in Entities |-> << >>]
    /\ extracted = [e \in Entities |-> NoDF]
    /\ transformed = [e \in Entities |-> NoDF]
    /\ validated = [e \in Entities |-> "none"]
    /\ bq = [e \in Entities |-> AbsentTable]
    /\ prior = bq
    /\ written = << >>
    /\ failed = << >>
    /\ pending = << >>
    /\ exit_status = << >>
    /\ success_logged = FALSE
    /\ failure_logged = FALSE
    /\ summary = << >>

InitTransform ==
    /\ MainIdle
    /\ fn \in TransformFns
    /\ \E file \in TransformInputs(fn) : arg = <<file>>
    /\ ret = << >>

Apply(f, result) ==
    /\ fn = f /\ ret = << >>
    /\ ret' = <<result>>
    /\ UNCHANGED <<fn, arg>>
    /\ UNCHANGED mainVars

Apply_transform_patient_data ==
    Apply("transform_patient_data",
          Returned(transform_patient_data(read_patient_data(arg[1]))))
Apply_transform_treatment_data ==
    Apply("transform_treatment_data",
          Returned(transform_treatment_data(read_treatment_data(arg[1]))))
Apply_transform_hospital_analysis_data ==
    Apply("transform_hospital_analysis_data",
          Returned(transform_hospital_analysis_data(read_hospital_analysis_data(arg[1]))))
Apply_process_patient_data == Apply("process_patient_data", process_patient_data(arg[1]))
Apply_process_treatment_data == Apply("process_treatment_data", process_treatment_data(arg[1]))
Apply_process_hospital_analysis_data ==
    Apply("process_hospital_analysis_data", process_hospital_analysis_data(arg[1]))

NextTransform ==
    \/ Apply_transform_patient_data
    \/ Apply_transform_treatment_data
    \/ Apply_transform_hospital_analysis_data
    \/ Apply_process_patient_data
    \/ Apply_process_treatment_data
    \/ Apply_process_hospital_analysis_data

SpecTransform == InitTransform /\ [][NextTransform]_vars

\* ---------------------------------------------------------------- transformer claims
AnalysisFns == {"transform_hospital_analysis_data", "process_hospital_analysis_data"}
TreatmentFns == {"transform_treatment_data", "process_treatment_data"}
PatientFns == {"transform_patient_data", "process_patient_data"}
\* The harness applied its function and the function returned a dataframe.
Transformed == fn \in TransformFns /\ ret # << >> /\ ret[1].ok
InLines == arg[1].lines
OutRows == ret[1].df.rows
Present(row, c) == c \in DOMAIN row => isNotNull(row[c])

\* The required fields of the data model, per record type.
RequiredFields(f) ==
    IF f \in PatientFns THEN
        {"patient_id", "first_name", "last_name", "date_of_birth", "admission_date",
         "discharge_date", "diagnosis"}
    ELSE IF f \in TreatmentFns THEN
        {"treatment_id", "patient_id", "treatment_type", "treatment_date", "doctor_name", "cost"}
    ELSE {"patient_id", "age", "gender", "condition", "procedure", "cost", "length_of_stay",
          "readmission", "outcome", "satisfaction"}

\* C7 as stated: after transformation every required field of every record
\* type is non-missing in every row.
C7_AllRequiredFieldsPresent ==
    Transformed =>
        \A i \in 1..Len(OutRows) : \A c \in RequiredFields(fn) : Present(OutRows[i], c)

\* The fields the transformers do fill, and the default each gets.
FilledAnalysisFields ==
    {"age", "gender", "condition", "procedure", "cost", "length_of_stay", "readmission",
     "outcome", "satisfaction"}
DefaultOf(c) ==
    IF c \in {"age", "cost", "length_of_stay"} THEN Num(0)
    ELSE IF c = "satisfaction" THEN Num(3)
    ELSE IF c = "readmission" THEN Str("No")
    ELSE Str("Unknown")
FilledFields(f) ==
    IF f \in AnalysisFns THEN FilledAnalysisFields
    ELSE IF f = "process_treatment_data" THEN {"treatment_type", "cost"}
    ELSE {}

\* C7 amended: in both variants every hospital-analysis row has age, gender,
\* condition, procedure, cost, length of stay, readmission, outcome and
\* satisfaction non-missing after transformation, and in the single-process
\* variant every treatment row has treatment type and cost non-missing; a
\* missing input value of these fields is replaced by the field's default.
C7_FilledFieldsPresent ==
    Transformed =>
        \A i \in 1..Len(OutRows) : \A c \in FilledFields(fn) :
            /\ isNotNull(OutRows[i][c])
            /\ InLines[i][c] = "" => OutRows[i][c] = DefaultOf(c)

\* C7 witness: a hospital-analysis row read with an empty gender and an empty
\* age came out of the transformer with the defaults.
C7_Witness ==
    /\ Transformed /\ fn = "transform_hospital_analysis_data"
    /\ Len(OutRows) = 1
    /\ InLines[1]["gender"] = "" /\ InLines[1]["age"] = ""
    /\ OutRows[1]["gender"] = Str("Unknown") /\ OutRows[1]["age"] = Num(0)

\* C8: after either hospital-analysis transformer 0 <= age <= 120: a missing
\* age is 0, an age below 0 is 0, an age above 120 is 120, an age in range is
\* unchanged.
C8_AgeInRange ==
    Transformed /\ fn \in AnalysisFns =>
        \A i \in 1..Len(OutRows) :
            LET in == ParseNum(InLines[i]["age"])
                out == OutRows[i]["age"]
            IN  /\ out.k = "num" /\ 0 <= out.n /\ out.n <= 120
                /\ isNull(in) => out.n = 0
                /\ isNotNull(in) /\ in.n < 0 => out.n = 0
                /\ isNotNull(in) /\ in.n > 120 => out.n = 120
                /\ isNotNull(in) /\ 0 <= in.n /\ in.n <= 120 => out.n = in.n

\* C9: after either hospital-analysis transformer 1 <= satisfaction <= 5, and
\* a missing satisfaction is exactly 3.
C9_SatisfactionInRange ==
    Transformed /\ fn \in AnalysisFns =>
        \A i \in 1..Len(OutRows) :
            LET out == OutRows[i]["satisfaction"]
            IN  /\ out.k = "num" /\ 1 <= out.n /\ out.n <= 5
                /\ InLines[i]["satisfaction"] = "" => out.n = 3

\* C10: after every transformer with a cost or a length_of_stay column the
\* value is a number >= 0.
C10_CostAndStayNonNegative ==
    Transformed /\ fn \in AnalysisFns \cup TreatmentFns =>
        \A i \in 1..Len(OutRows) : \A c \in {"cost", "length_of_stay"} \cap DOMAIN OutRows[i] :
            OutRows[i][c].k = "num" /\ OutRows[i][c].n >= 0

\* ---------------------------------------------------------------- validator harness
\* validate_data applied to tables of up to MaxValRows rows, read from lines
\* whose key is empty, "K1" or "K2", before and after transformation.
KeyOf(data_type) == IF data_type = "treatment" THEN "treatment_id" ELSE "patient_id"
ValidatorLines(e) ==
    {[l EXCEPT ![KeyOf(data_types[e])] = key] :
        l \in (IF e = 1 THEN PatientLines ELSE IF e = 2 THEN TreatmentLines ELSE AnalysisLines),
        key \in {"", "K1", "K2"}}
ValidatorTables(e) ==
    LET files == FilesOf(ValidatorLines(e), MaxValRows)
    IN  {read_data(e, f) : f \in files} \cup {transform_data(e, read_data(e, f)) : f \in files}

InitValidate ==
    /\ MainIdle
    /\ fn = "validate_data"
    /\ \E e \in Entities : \E df \in ValidatorTables(e) : arg = <<df, data_types[e]>>
    /\ ret = << >>

Apply_validate_data == Apply("validate_data", validate_report(arg[1], arg[2]))

NextValidate == Apply_validate_data

SpecValidate == InitValidate /\ [][NextValidate]_vars

\* The rows of a table whose key is null, and the key values (null among them,
\* as in a groupBy) that two different rows share.
NullKeyRows(df, c) == {i \in 1..Len(df.rows) : df.rows[i][c].k = "null"}
SharedKeys(df, c) ==
    {v \in {df.rows[i][c] : i \in 1..Len(df.rows)} :
        \E i, j \in 1..Len(df.rows) : i < j /\ df.rows[i][c] = v /\ df.rows[j][c] = v}

\* C5: validate_data returns false exactly when its key column has a null or
\* a value shared by two rows; the duplicate count it logs is the number of
\* shared key values; the result is a function of the key column alone.
C5_ValidateDecidedByKey ==
    fn = "validate_data" /\ ret # << >> =>
        LET df == arg[1]
            key == KeyOf(arg[2])
            nulls == Cardinality(NullKeyRows(df, key))
            dups == Cardinality(SharedKeys(df, key))
        IN  /\ ret[1].null_keys = nulls
            /\ ret[1].duplicates = dups
            /\ ret[1].result = FALSE <=> (nulls > 0 \/ dups > 0)
            /\ ret[1].result <=>
                 \A i, j \in 1..Len(df.rows) :
                    /\ df.rows[i][key].k # "null"
                    /\ i # j => df.rows[i][key] # df.rows[j][key]

\* C5 witness: a table with one duplicated key and otherwise valid rows was
\* validated: duplicate count 1, no null anywhere, result false.
C5_Witness ==
    /\ fn = "validate_data" /\ ret # << >>
    /\ ret[1].duplicates = 1 /\ ret[1].null_keys = 0
    /\ \A i \in 1..Len(ret[1].others) : ret[1].others[i] = 0
    /\ ret[1].result = FALSE

\* ---------------------------------------------------------------- orchestrator claims
Range(seq) == {seq[i] : i \in 1..Len(seq)}
Exited == pc = "exited"
\* A stage of an entity pipeline failed in this run: it raised, or the
\* validator returned false.
StageRaised == failed # << >> /\ failed[2] \in {"extract", "transform", "validate", "load"}
ValidationFailed == \E e \in Entities : validated[e] = "fail"
EntityFailed == StageRaised \/ ValidationFailed
\* What the load of entity e puts in its table.
Loaded(e) ==
    LET df == IF variant = "spark" THEN df_to_write(transformed[e], table_ids[e])
              ELSE transformed[e]
    IN  [exists |-> TRUE, cols |-> df.cols, rows |-> df.rows]

\* C1: in run_etl.main a table is loaded only after validate_data returned
\* true for its entity; once validate_data returned false for an entity, that
\* entity's table and the later ones are not written and the run is aborting
\* with status 1.
C1_LoadOnlyAfterValidation ==
    variant = "spark" =>
        \A e \in Entities :
            /\ e \in Range(written) => validated[e] = "pass"
            /\ validated[e] = "fail" =>
                 /\ \A k \in e..Len(table_ids) : k \notin Range(written) /\ bq[k] = prior[k]
                 /\ pc \in {"finally", "exited"}
                 /\ pending = <<1>>
                 /\ Exited => exit_status = <<1>>

\* C1 witness: the run ended after patients was loaded and the treatment
\* validation failed.
C1_Witness ==
    /\ variant = "spark" /\ Exited
    /\ written = <<1>> /\ validated[2] = "fail"

\* C2: when a stage of an entity pipeline fails, the run is never reported
\* successful and ends with status 1, and the tables loaded earlier in the run
\* keep what was loaded.
C2_NoPartialSuccess ==
    /\ EntityFailed =>
         /\ ~success_logged /\ summary = << >>
         /\ Exited => exit_status = <<1>>
    /\ \A e \in Range(written) : bq[e] = Loaded(e)

\* C2 witness: the run failed in the third load after two tables were
\* replaced.
C2_Witness ==
    /\ Exited /\ failed = <<3, "load">>
    /\ written = <<1, 2>>
    /\ bq[1] # prior[1] /\ bq[2] # prior[2] /\ bq[3] = prior[3]

\* C3: when run_etl.main ends after the session was created, the session has
\* been stopped.
C3_SessionReleased ==
    variant = "spark" /\ Exited => session # "active"

\* C3 witness: a run that validate_data aborted ended with the session
\* stopped.
C3_Witness ==
    /\ variant = "spark" /\ Exited
    /\ ValidationFailed /\ session = "stopped"

\* C4: the process ends with status 1 when a stage failed, ends with status 0
\* only when the three tables were loaded and the summary was logged, and the
\* summary is logged only after the three loads returned.
C4_ExitStatus ==
    /\ Exited /\ (EntityFailed \/ failed # << >>) => exit_status = <<1>>
    /\ Exited /\ exit_status = <<0>> =>
         /\ written = <<1, 2, 3>>
         /\ \A e \in Entities : transformed[e].bound
         /\ summary = <<[e \in Entities |-> Len(transformed[e].rows)]>>
    /\ summary # << >> => written = <<1, 2, 3>>

\* C4 witness: a run of run_etl.main ended with status 0.
C4_Witness ==
    /\ variant = "spark" /\ Exited /\ exit_status = <<0>>
    /\ summary # << >>

\* C6: once the load of a table returned, the table has as many rows as the
\* transformed input, whatever it held before the run.
C6_TruncateAndReplace ==
    \A e \in Range(written) :
        /\ bq[e].exists
        /\ Len(bq[e].rows) = Len(transformed[e].rows)

\* C6 witness: a table that held rows of an earlier load was loaded with a
\* non-empty input of another size.
C6_Witness ==
    \E e \in Range(written) :
        /\ Len(prior[e].rows) > 0
        /\ Len(transformed[e].rows) > 0
        /\ Len(transformed[e].rows) # Len(prior[e].rows)

\* ---------------------------------------------------------------- cost category
\* Treatment files of one or two lines: the two line layouts differ in every
\* field but the cost, which ranges over the texts around each threshold.
CostLineA(c) ==
    [treatment_id |-> "T1", patient_id |-> "P1", treatment_type |-> "Surgery",
     treatment_date |-> "2020-01-05 10:00:00", doctor_name |-> "Dr. Poe",
     treatment_notes |-> "", cost |-> c, created_at |-> "2020-01-10 00:00:00"]
CostLineB(c) ==
    [treatment_id |-> "", patient_id |-> "", treatment_type |-> "",
     treatment_date |-> "yesterday", doctor_name |-> "",
     treatment_notes |-> "", cost |-> c, created_at |-> ""]
CostFiles ==
    {File(DOMAIN treatment_schema, <<CostLineA(c)>>) : c \in TreatmentCostTexts}
    \cup {File(DOMAIN treatment_schema, <<CostLineA(c), CostLineB(d)>>) :
             c \in TreatmentCostTexts, d \in TreatmentCostTexts}

InitCostCategory ==
    /\ MainIdle
    /\ fn = "transform_treatment_data"
    /\ \E file \in CostFiles : arg = <<file>>
    /\ ret = << >>

NextCostCategory == Apply_transform_treatment_data

SpecCostCategory == InitCostCategory /\ [][NextCostCategory]_vars

\* The category the thresholds give a cost cell.
CategoryByThreshold(cost) ==
    IF cost.k = "num" /\ cost.n >= 5000 THEN "High Cost"
    ELSE IF cost.k = "num" /\ cost.n >= 1000 /\ cost.n < 5000 THEN "Medium Cost"
    ELSE IF cost.k = "num" /\ cost.n >= 100 /\ cost.n < 1000 THEN "Low Cost"
    ELSE "Minimal Cost"

\* C11: in the output of transform_treatment_data the cost_category of every
\* row is the category the thresholds 5000, 1000 and 100 give that row's cast
\* cost (Minimal Cost below 100 and for a null cost), whatever the other
\* fields of the row hold: 5000 is High, 999 is Low, 50 is Minimal, and rows
\* with equal cost have equal category.
C11_CostCategoryByCost ==
    fn = "transform_treatment_data" /\ ret # << >> =>
        \A i \in 1..Len(OutRows) :
            LET cost == OutRows[i]["cost"]
                cat == OutRows[i]["cost_category"]
            IN  /\ cost = castDouble(SparkField("string", InLines[i]["cost"]))
                /\ cat = Str(CategoryByThreshold(cost))
                /\ cost = Num(5000) => cat = Str("High Cost")
                /\ cost = Num(999) => cat = Str("Low Cost") /\ cat # Str("Medium Cost")
                /\ cost = Num(50) => cat = Str("Minimal Cost")
                /\ isNull(cost) => cat = Str("Minimal Cost")
                /\ \A j \in 1..Len(OutRows) :
                      OutRows[j]["cost"] = cost => OutRows[j]["cost_category"] = cat

\* C11 witness: two rows that differ in every other field and both cost 5000
\* were both categorised High Cost.
C11_Witness ==
    /\ fn = "transform_treatment_data" /\ ret # << >>
    /\ Len(OutRows) > 1
    /\ OutRows[1]["cost"] = Num(5000) /\ OutRows[2]["cost"] = Num(5000)
    /\ OutRows[1]["treatment_id"] # OutRows[2]["treatment_id"]
    /\ OutRows[1]["cost_category"] = Str("High Cost")
    /\ OutRows[2]["cost_category"] = Str("High Cost")

\* ---------------------------------------------------------------- persisted columns
\* The columns of the extracted schema of each entity.
SchemaColumns(e) ==
    IF e = 1 THEN DOMAIN patient_schema
    ELSE IF e = 2 THEN DOMAIN treatment_schema
    ELSE DOMAIN analysis_schema
\* The columns the run_etl transformers derive, and their validity flags.
DerivedColumns ==
    {"age_at_admission", "length_of_stay_days", "full_name", "treatment_year",
     "treatment_month", "treatment_day_of_week", "cost_category", "processed_at"}
ValidityFlags ==
    {"has_valid_dates", "has_valid_diagnosis", "has_valid_cost", "has_valid_doctor",
     "has_valid_treatment_type"}

\* C12: a table loaded by run_etl holds exactly the extracted schema columns
\* and created_at, with the values of the transformed table, and none of the
\* derived columns or validity flags the transformer added (these are all it
\* drops); a table loaded by etl_cloud_run holds every column and row of the
\* transformed table: the columns of the file and the added created_at.
C12_PersistedColumns ==
    \A e \in Range(written) :
        /\ \A i \in 1..Len(bq[e].rows) : DOMAIN bq[e].rows[i] = bq[e].cols
        /\ variant = "spark" =>
             /\ bq[e].cols = SchemaColumns(e) \cup {"created_at"}
             /\ bq[e].cols \cap (DerivedColumns \cup ValidityFlags) = {}
             /\ transformed[e].cols \ bq[e].cols \subseteq DerivedColumns \cup ValidityFlags
             /\ Len(bq[e].rows) = Len(transformed[e].rows)
             /\ \A i \in 1..Len(bq[e].rows) : \A c \in bq[e].cols :
                   bq[e].rows[i][c] = transformed[e].rows[i][c]
        /\ variant = "cloudrun" =>
             /\ bq[e].cols = transformed[e].cols
             /\ bq[e].cols = local_files[e][1].header \cup {"created_at"}
             /\ "created_at" \notin local_files[e][1].header
             /\ bq[e].rows = transformed[e].rows

\* C12 witness: run_etl loaded a non-empty treatments table whose transformed
\* frame carried cost_category and has_valid_cost, and the table has neither.
C12_Witness ==
    /\ variant = "spark" /\ 2 \in Range(written)
    /\ Len(bq[2].rows) > 0
    /\ {"cost_category", "has_valid_cost", "processed_at"} \subseteq transformed[2].cols
    /\ {"cost_category", "has_valid_cost", "processed_at"} \cap bq[2].cols = {}

\* ---------------------------------------------------------------- validation gate
\* The key column of a table holds a null, or a value two rows share.
BadKey(df, e) ==
    \/ NullKeyRows(df, KeyOf(data_types[e])) # {}
    \/ SharedKeys(df, KeyOf(data_types[e])) # {}

\* C13: etl_cloud_run.main never validates: a table its processor returned is
\* loaded next, whatever its key column holds (only the load itself raising
\* keeps it out of the warehouse), and a run in which nothing raised ends with
\* status 0 and the row-count summary after the three loads; run_etl.main
\* never loads a table whose key column holds a null or a duplicate, never
\* reports success after one, and ends such a run with status 1.
C13_NoGateInCloudRun ==
    /\ variant = "cloudrun" =>
         /\ \A e \in Entities :
              /\ validated[e] = "none"
              /\ transformed[e].bound /\ e \notin Range(written) =>
                    /\ cur = e
                    /\ pc = "upload" \/ failed = <<e, "load">>
              /\ e \in Range(written) => bq[e].rows = transformed[e].rows
         /\ Exited /\ failed = << >> =>
              /\ written = <<1, 2, 3>>
              /\ exit_status = <<0>>
              /\ success_logged
              /\ summary = <<[e \in Entities |-> Len(bq[e].rows)]>>
    /\ variant = "spark" =>
         \A e \in Entities :
            transformed[e].bound /\ BadKey(transformed[e], e) =>
                /\ e \notin Range(written) /\ bq[e] = prior[e]
                /\ ~success_logged /\ summary = << >>
                /\ pc \in {"validate", "except", "finally", "exited"}
                /\ Exited => exit_status = <<1>>

\* C13 witness: a run of etl_cloud_run.main ended with status 0 and the
\* summary after loading one table with a null key and another with a
\* duplicated key.
C13_Witness ==
    /\ variant = "cloudrun" /\ Exited
    /\ exit_status = <<0>> /\ summary # << >>
    /\ \E d, e \in Range(written) :
          /\ NullKeyRows(transformed[d], KeyOf(data_types[d])) # {}
          /\ NullKeyRows(transformed[e], KeyOf(data_types[e])) = {}
          /\ SharedKeys(transformed[e], KeyOf(data_types[e])) # {}
          /\ bq[d].rows = transformed[d].rows /\ bq[e].rows = transformed[e].rows

\* ---------------------------------------------------------------- order of the pipelines
\* A stage of entity e has started in this run: its file was downloaded or
\* read, its table transformed or validated, or one of its stages raised.
Started(e) ==
    \/ local_files[e] # << >>
    \/ extracted[e].bound
    \/ transformed[e].bound
    \/ validated[e] # "none"
    \/ StageRaised /\ failed[1] = e
\* main is inside the pipeline of an entity.
InPipeline == pc \in {"read", "transform", "validate", "write", "download", "process", "upload"}

\* C14: the tables replaced so far are those of the first entities in the
\* order patients, treatments, hospital_analysis, each holding what its load
\* put there, and every other table holds what it held before the run; a
\* stage of an entity has started only if the tables of all entities before it
\* were replaced; the entity main is working on, and the entity whose stage
\* raised or whose validation failed, is the first one not replaced.
C14_TablesReplacedInOrder ==
    LET n == Len(written)
    IN  /\ n <= Len(table_ids)
        /\ \A i \in 1..n : written[i] = i
        /\ \A e \in Entities :
              /\ e <= n => bq[e] = Loaded(e) /\ bq[e] # prior[e]
              /\ e > n => bq[e] = prior[e]
              /\ Started(e) => e <= n + 1
              /\ validated[e] = "fail" => e = n + 1
        /\ InPipeline => cur = n + 1 /\ Started(cur) = (pc \notin {"read", "download"})
        /\ StageRaised => failed[1] = n + 1

\* C14 witness: a run over three populated tables ended after a stage of the
\* second entity raised: patients is replaced, treatments and
\* hospital_analysis hold their earlier rows.
C14_Witness ==
    /\ Exited /\ StageRaised /\ failed[1] = 2
    /\ written = <<1>>
    /\ \A e \in Entities : Len(prior[e].rows) > 0
    /\ bq[1] # prior[1] /\ bq[2] = prior[2] /\ bq[3] = prior[3]

====
